---- MODULE Spec2Model ----
(***************************************************************************)
(* Model of common/channel/remote.go: one mux session served by            *)
(* ServProxyMuxSession, the proxy-stream handlers it spawns                *)
(* (handleProxyStream), the idle-session reaper started from init(), and   *)
(* the package-level idle-candidate set emptySessions.                     *)
(*                                                                         *)
(* Spec follows the session with its handlers and the reaper.  Three       *)
(* parts of the code are followed on their own, with the session at rest:  *)
(* getRateLimitBucket under concurrent callers of several users            *)
(* (BucketSpec), one connect request from hop to hop (ChainSpec), and the  *)
(* handlers alone (HandlerSpec; FairRelaySpec adds the silence of their    *)
(* streams and the scheduling of their goroutines).                        *)
(*                                                                         *)
(* Goroutines are interleaved at their accesses to shared memory           *)
(* (ctx.streamCouter, ctx.closed, emptySessions, the underlying session);  *)
(* code between two such accesses that touches only stream-local state is  *)
(* one step.                                                               *)
(***************************************************************************)
EXTENDS Integers, Sequences, FiniteSets

\* ------------------------------------------------------------ bounds
\* streams the peer opens on the session over its lifetime
MaxStreams == 2
\* last instant of the wall clock (seconds)
MaxTime == 2
\* longest hop list of a connect request
MaxHops == 2

\* ------------------------------------------------------------ configuration
\* defaultMuxConfig.SessionIdleTimeout, in seconds
SessionIdleTimeout == 1
\* defaultMuxConfig.StreamIdleTimeout, in seconds
StreamIdleTimeout == 0
\* the 10 * time.Second fallback of maxIdleTime, in seconds
DefaultStreamIdleSeconds == 10
\* time.Second in the unit of time.Millisecond
MillisPerSecond == 1000
\* the dial timeout of a request that names none, in milliseconds
DefaultDialTimeoutMillis == 10000
\* capacity of the closeSig channel
CloseSigCap == 1

Streams == 1..MaxStreams
\* idleSince while the session has an active stream: not within the clock
NoTime == MaxTime + 1
Ctx == "ctx"
Nil == [user |-> "", comp |-> "", room |-> ""]

\* what a peer can send as an auth request
Users == {"alice", "mallory"}
Compressors == {"snappy", "bogus"}
Rooms == {"", "room"}
AuthRequests == [user : Users, comp : Compressors, room : Rooms]

\* DefaultServerCipher.VerifyUser and mux.IsValidCompressor: external
\* collaborators, fixed by the server's configuration
VerifyUser(user) == user = "alice"
IsValidCompressor(comp) == comp = "snappy"

\* the auth argument a listener may pass to ServProxyMuxSession
SuppliedAuths == {Nil, [user |-> "alice", comp |-> "snappy", room |-> ""]}

\* creq.ReadTimeout values (milliseconds) a connect request may carry
ReadTimeouts == {0, 3000}

\* what a connect request read from a stream can carry
Networks == {"tcp", "udp"}
Addrs == {"example.org:80"}
DialTimeouts == {0, 5000}
HopAddrs == {"hopA", "hopB"}
HopLists == UNION {[1..n -> HopAddrs] : n \in 0..MaxHops}
ConnectRequests ==
    [Network : Networks, Addr : Addrs, DialTimeout : DialTimeouts,
     ReadTimeout : ReadTimeouts, Hops : HopLists]

\* DefaultServerRateLimit.Limit: a nil map, or limit strings by user, "*" for
\* everybody else
LimitKeys == {"alice", "*"}
LimitStrings == {"", "0", "x", "1k"}
NoLimits == [k \in {} |-> ""]
RateLimitConfigs ==
    {[nil |-> TRUE, entries |-> NoLimits]} \cup
    {[nil |-> FALSE, entries |-> e] :
        e \in UNION {[K -> LimitStrings] : K \in SUBSET LimitKeys}}
\* the limit of the server whose session is followed: one rate for everybody
DefaultServerRateLimit == [nil |-> FALSE, entries |-> [k \in {"*"} |-> "1k"]]
\* stream handlers, of any session, that ask for a bucket, and the user each
\* one's session is authenticated as
BucketCallers == {"a1", "a2", "b1"}
CallerUser(c) == IF c = "b1" THEN "bob" ELSE "alice"
NoBuckets == [k \in {} |-> 0]
NoCall == [pc |-> "idle", ok |-> FALSE]

\* errors io.CopyBuffer may return in the destination-to-stream loop
CopyErrors == {"nil", "pmux.ErrTimeout", "net.Timeout", "net.Other", "other"}
IsNetError(err) == err \in {"net.Timeout", "net.Other"}
NetTimeout(err) == err = "net.Timeout"

VARIABLES
    authArg,            \* the auth parameter of ServProxyMuxSession
    auth,               \* ctx.auth
    activeIOTime,       \* ctx.activeIOTime
    streamCouter,       \* ctx.streamCouter
    closed,             \* ctx.closed
    isP2SP,             \* ctx.isP2SP
    emptySessions,      \* the package-level sync.Map, as its key set
    srvPc,              \* position of ServProxyMuxSession
    ret,                \* its return value
    accepted,           \* streams AcceptStream has returned so far
    sessionCloseCalls,  \* calls of session.Close()
    closeCalls,         \* executions of ctx.close()
    p2spRegistered,     \* the session is in the peer-relay room table
    removeP2spCalls,    \* calls of removeP2spSession
    reaperPc,           \* position of the reaper goroutine
    now,                \* wall clock, seconds
    idleSince,          \* history: since when streamCouter is zero
    streams,            \* per stream: the handler goroutine and its locals
    limit,              \* DefaultServerRateLimit.Limit
    rateLimitBuckets,   \* the package-level bucket table, key to bucket
    bucketsMade,        \* the keys ratelimit.NewBucket was called for, in order
    got,                \* history: <<key, bucket>> of every bucket returned
    rateLimitBucketLock,\* the mutex: "free" or the caller that holds it
    callers,            \* per caller: its position in getRateLimitBucket
    cryptoResets,       \* calls of ResetCryptoContext
    chain               \* a connect request on its way through the hops

vars == <<authArg, auth, activeIOTime, streamCouter, closed, isP2SP,
          emptySessions, srvPc, ret, accepted, sessionCloseCalls, closeCalls,
          p2spRegistered, removeP2spCalls, reaperPc, now, idleSince, streams,
          limit, rateLimitBuckets, bucketsMade, got, rateLimitBucketLock,
          callers, cryptoResets, chain>>

ctxVars == <<auth, activeIOTime, streamCouter, closed, isP2SP>>
srvVars == <<srvPc, ret, accepted>>
extVars == <<sessionCloseCalls, closeCalls, p2spRegistered, removeP2spCalls>>
regVars == <<rateLimitBuckets, bucketsMade, got>>
callVars == <<rateLimitBucketLock, callers>>
sideVars == <<limit, chain, regVars, callVars>>

\* A stream and the handler goroutine it is given to:
\*   pc          where the stream stands: not accepted ("none"), consumed by
\*               the handshake ("hs_..."), handed to handleP2spProxyStream
\*               ("p2sp"), or the position of handleProxyStream
\*   closed      stream.Close() has been called
\*   dest        the destination-side connection obtained: "none", open
\*               ("conn" dialed, "hop" from GetMuxStreamByURL) or "closed"
\*   copier      the stream-to-destination goroutine
\*   closeSig    messages in the one-slot channel
\*   maxIdleTime the local of that name, milliseconds, while the loop runs
\*   retrying    the current pass of the loop follows a `continue`
\*   deadline    c is a DeadLineAccetor: its read deadline can be set
\*   silent      the stream has had no I/O for longer than maxIdleTime
\*   refused     what the handshake on this stream was refused for
NoStream == [pc |-> "none", closed |-> FALSE, dest |-> "none",
             copier |-> "none", closeSig |-> 0, maxIdleTime |-> 0,
             retrying |-> FALSE, deadline |-> FALSE, silent |-> FALSE,
             refused |-> "none"]

\* no connect request is followed through its hops
NoRequest == [Network |-> "", Addr |-> "", DialTimeout |-> 0,
              ReadTimeout |-> 0, Hops |-> <<>>]
NoDial == [Network |-> "", Addr |-> "", Timeout |-> 0]
NoChain == [orig |-> NoRequest, creq |-> NoRequest, opened |-> <<>>,
            outcome |-> "none", dial |-> NoDial]

\* ------------------------------------------------------------ Init
\* ServProxyMuxSession lines 218-222: the context is built and the accept loop
\* is about to run; nothing is stored in emptySessions.
SessionInit ==
    /\ authArg \in SuppliedAuths
    /\ auth = authArg
    /\ now = 0
    /\ activeIOTime = now
    /\ streamCouter = 0
    /\ closed = FALSE
    /\ isP2SP = FALSE
    /\ emptySessions = {}
    /\ srvPc = "accept"
    /\ ret = "none"
    /\ accepted = 0
    /\ sessionCloseCalls = 0
    /\ closeCalls = 0
    /\ p2spRegistered = FALSE
    /\ removeP2spCalls = 0
    /\ reaperPc = "idle"
    /\ idleSince = now
    /\ streams = [s \in Streams |-> NoStream]
    /\ cryptoResets = 0

\* line 19: the bucket table starts empty
RegistryInit ==
    /\ rateLimitBuckets = NoBuckets
    /\ bucketsMade = <<>>
    /\ got = {}
    /\ rateLimitBucketLock = "free"
    /\ callers = [c \in BucketCallers |-> NoCall]

Init ==
    /\ SessionInit
    /\ limit = DefaultServerRateLimit
    /\ RegistryInit
    /\ chain = NoChain

SetStream(s, r) == [streams EXCEPT ![s] = r]

\* ------------------------------------------------------------ ctx.close()
\* lines 32-36: everything of close() up to, not including, the Delete.
\* removeP2spSession runs only for a registered peer-relay session; `before`
\* counts the session.Close() calls the caller made just before close().
CloseHead(before) ==
    /\ closed' = TRUE
    /\ IF isP2SP /\ auth # Nil
         THEN /\ p2spRegistered' = FALSE
              /\ removeP2spCalls' = removeP2spCalls + 1
         ELSE UNCHANGED <<p2spRegistered, removeP2spCalls>>
    /\ sessionCloseCalls' = sessionCloseCalls + before + 1
    /\ closeCalls' = closeCalls + 1

\* line 37
CloseTail == emptySessions' = emptySessions \ {Ctx}

\* ------------------------------------------------------------ accept loop
\* line 231
NeedsHandshake == auth = Nil

\* line 224, success: AcceptStream hands out the next stream of a session that
\* nobody has closed
Accepts(s) ==
    /\ srvPc = "accept"
    /\ sessionCloseCalls = 0
    /\ s = accepted + 1
    /\ s \in Streams
    /\ accepted' = s

\* lines 224-230, and the head of the deferred ctx.close(): AcceptStream's
\* error is returned as it is (pmux.ErrSessionShutdown differs from the others
\* in the log line only)
AcceptFail ==
    /\ srvPc = "accept"
    /\ ret' = "AcceptStreamError"
    /\ srvPc' = "closing"
    /\ CloseHead(0)
    /\ UNCHANGED <<authArg, sideVars, cryptoResets,
                   auth, activeIOTime, streamCouter, isP2SP,
                   emptySessions, accepted, reaperPc, now, idleSince, streams>>

\* the tail of the deferred ctx.close(); then ServProxyMuxSession has returned
ServClose ==
    /\ srvPc = "closing"
    /\ CloseTail
    /\ srvPc' = "returned"
    /\ UNCHANGED <<authArg, sideVars, cryptoResets,
                   ctxVars, ret, accepted, extVars, reaperPc, now,
                   idleSince, streams>>

\* a missing `continue`: the stream falls through to the dispatch
HandshakeReadFail_FallThrough(s) ==
    /\ Accepts(s)
    /\ NeedsHandshake
    /\ streams' = SetStream(s, [streams[s] EXCEPT !.pc = "start"])
    /\ UNCHANGED <<authArg, sideVars, cryptoResets,
                   ctxVars, emptySessions, srvPc, ret, extVars,
                   reaperPc, now, idleSince>>

\* lines 231-236: ReadAuthRequest fails, the loop continues; the stream is
\* left as it is
HandshakeReadFail(s) ==
    /\ Accepts(s)
    /\ NeedsHandshake
    /\ streams' = SetStream(s, [streams[s] EXCEPT !.pc = "hs_readfail"])
    /\ UNCHANGED <<authArg, sideVars, cryptoResets,
                   ctxVars, emptySessions, srvPc, ret, extVars,
                   reaperPc, now, idleSince>>

\* the rejection only logged: neither session.Close() nor return
HandshakeReject_Continue(s) ==
    /\ Accepts(s)
    /\ NeedsHandshake
    /\ \E recvAuth \in AuthRequests :
          /\ ~VerifyUser(recvAuth.user) \/ ~IsValidCompressor(recvAuth.comp)
          /\ streams' = SetStream(s, [streams[s] EXCEPT
                 !.pc = "hs_rejected",
                 !.refused = IF ~VerifyUser(recvAuth.user)
                               THEN "user" ELSE "compressor"])
    /\ UNCHANGED <<authArg, sideVars, cryptoResets,
                   ctxVars, emptySessions, srvPc, ret, extVars,
                   reaperPc, now, idleSince>>

\* lines 238-246: the user or the compressor is refused; session.Close(),
\* return ErrAuthFailed, and the head of the deferred ctx.close()
HandshakeReject(s) ==
    /\ Accepts(s)
    /\ NeedsHandshake
    /\ \E recvAuth \in AuthRequests :
          /\ ~VerifyUser(recvAuth.user) \/ ~IsValidCompressor(recvAuth.comp)
          /\ streams' = SetStream(s, [streams[s] EXCEPT
                 !.pc = "hs_rejected",
                 !.refused = IF ~VerifyUser(recvAuth.user)
                               THEN "user" ELSE "compressor"])
    /\ ret' = "ErrAuthFailed"
    /\ srvPc' = "closing"
    /\ CloseHead(1)
    /\ UNCHANGED <<authArg, sideVars, cryptoResets,
                   auth, activeIOTime, streamCouter, isP2SP,
                   emptySessions, reaperPc, now, idleSince>>

\* lines 247-252: the request is verified and stored, addP2spSession refuses
\* the room; session.Close(), return ErrAuthFailed, deferred ctx.close()
\* (ctx.isP2SP is still false, so nothing is deregistered)
HandshakeP2spFail(s) ==
    /\ Accepts(s)
    /\ NeedsHandshake
    /\ \E recvAuth \in AuthRequests :
          /\ VerifyUser(recvAuth.user)
          /\ IsValidCompressor(recvAuth.comp)
          /\ Len(recvAuth.room) > 0
          /\ auth' = recvAuth
    /\ streams' = SetStream(s, [streams[s] EXCEPT !.pc = "hs_p2spfail"])
    /\ ret' = "ErrAuthFailed"
    /\ srvPc' = "closing"
    /\ CloseHead(1)
    /\ UNCHANGED <<authArg, sideVars, cryptoResets,
                   activeIOTime, streamCouter, isP2SP, emptySessions,
                   reaperPc, now, idleSince>>

\* the handshake that passes and forgets the auth it verified
HandshakeOK_NoStore(s) ==
    /\ Accepts(s)
    /\ NeedsHandshake
    /\ \E recvAuth \in AuthRequests :
          /\ VerifyUser(recvAuth.user)
          /\ IsValidCompressor(recvAuth.comp)
          /\ IF Len(recvAuth.room) > 0
               THEN isP2SP' = TRUE /\ p2spRegistered' = TRUE
               ELSE UNCHANGED <<isP2SP, p2spRegistered>>
    /\ streams' = SetStream(s, [streams[s] EXCEPT !.pc = "hs_ok",
                                                  !.closed = TRUE])
    /\ cryptoResets' = cryptoResets + 1
    /\ UNCHANGED <<authArg, sideVars, auth,
                   activeIOTime, streamCouter, closed, emptySessions,
                   srvPc, ret, sessionCloseCalls, closeCalls, removeP2spCalls,
                   reaperPc, now, idleSince>>

\* lines 237-263: the handshake passes; the auth is stored, the session is
\* registered in its room when it names one, the response is written, the
\* handshake stream closed and the cipher context reset (on a session of the
\* type *mux.ProxyMuxSession; on any other the reset is skipped)
HandshakeOK(s) ==
    /\ Accepts(s)
    /\ NeedsHandshake
    /\ \E recvAuth \in AuthRequests :
          /\ VerifyUser(recvAuth.user)
          /\ IsValidCompressor(recvAuth.comp)
          /\ auth' = recvAuth
          /\ IF Len(recvAuth.room) > 0
               THEN isP2SP' = TRUE /\ p2spRegistered' = TRUE
               ELSE UNCHANGED <<isP2SP, p2spRegistered>>
    /\ streams' = SetStream(s, [streams[s] EXCEPT !.pc = "hs_ok",
                                                  !.closed = TRUE])
    /\ cryptoResets' = cryptoResets + 1
    /\ UNCHANGED <<authArg, sideVars,
                   activeIOTime, streamCouter, closed, emptySessions,
                   srvPc, ret, sessionCloseCalls, closeCalls, removeP2spCalls,
                   reaperPc, now, idleSince>>

\* lines 265-269: the stream is handed to its own goroutine
Dispatch(s) ==
    /\ Accepts(s)
    /\ ~NeedsHandshake
    /\ streams' = SetStream(s, [streams[s] EXCEPT
                       !.pc = IF isP2SP THEN "p2sp" ELSE "start"])
    /\ UNCHANGED <<authArg, sideVars, cryptoResets,
                   ctxVars, emptySessions, srvPc, ret, extVars,
                   reaperPc, now, idleSince>>

\* ------------------------------------------------------------ getRateLimitBucket
\* lines 44-48: the user's own limit, or the one of "*"
BucketKey(user) == IF user \in DOMAIN limit.entries THEN user ELSE "*"

\* helper.ToBytes, on the limit strings of the configurations
ToBytes(l) ==
    IF l = "1k" THEN [err |-> "nil", v |-> 1024]
    ELSE IF l = "0" THEN [err |-> "nil", v |-> 0]
    ELSE [err |-> "invalid", v |-> 0]

\* lines 52-58
LimitPerSec(l) ==
    IF Len(l) > 0 /\ ToBytes(l).err = "nil" THEN ToBytes(l).v ELSE -1

\* lines 41-61: the call gets as far as the lock
Limited(user) ==
    /\ ~limit.nil
    /\ BucketKey(user) \in DOMAIN limit.entries
    /\ LimitPerSec(limit.entries[BucketKey(user)]) > 0

\* lines 65-69 for a lookup that said ok: a bucket is made and stored when the
\* key had none, and the key's bucket is returned
StoreAndReturn(key, ok) ==
    /\ IF ok
         THEN UNCHANGED <<rateLimitBuckets, bucketsMade>>
         ELSE /\ bucketsMade' = Append(bucketsMade, key)
              /\ rateLimitBuckets' =
                    [k \in DOMAIN rateLimitBuckets \cup {key} |->
                        IF k = key THEN Len(bucketsMade) + 1
                                   ELSE rateLimitBuckets[k]]
    /\ got' = got \cup {<<key, rateLimitBuckets'[key]>>}

\* line 188 as one step of a handler of the session: between Lock and Unlock
\* nothing else reads or writes the table
getRateLimitBucket(user) ==
    IF Limited(user)
      THEN StoreAndReturn(BucketKey(user),
                          BucketKey(user) \in DOMAIN rateLimitBuckets)
      ELSE UNCHANGED regVars

\* getRateLimitBucket step by step, for concurrent callers
BucketFrame ==
    UNCHANGED <<authArg, ctxVars, emptySessions, srvVars, extVars, reaperPc,
                now, idleSince, streams, limit, chain, cryptoResets>>

SetCaller(c, r) == [callers EXCEPT ![c] = r]

\* the mutex taken whether held or not
LockFree_Always == TRUE

\* line 62: Lock() returns only when nobody holds the mutex
LockFree == rateLimitBucketLock = "free"

\* lines 41-61: nil is returned, or the caller arrives at the lock
CallEnter(c) ==
    /\ callers[c].pc = "idle"
    /\ callers' = SetCaller(c, [callers[c] EXCEPT
                       !.pc = IF Limited(CallerUser(c)) THEN "wait" ELSE "idle"])
    /\ UNCHANGED <<regVars, rateLimitBucketLock>>
    /\ BucketFrame

\* lines 62-64: the lock is taken and the table looked up
CallLock(c) ==
    /\ callers[c].pc = "wait"
    /\ LockFree
    /\ rateLimitBucketLock' = c
    /\ callers' = SetCaller(c,
          [pc |-> "looked",
           ok |-> BucketKey(CallerUser(c)) \in DOMAIN rateLimitBuckets])
    /\ UNCHANGED regVars
    /\ BucketFrame

\* lines 65-69 and the deferred Unlock
CallStore(c) ==
    /\ callers[c].pc = "looked"
    /\ StoreAndReturn(BucketKey(CallerUser(c)), callers[c].ok)
    /\ rateLimitBucketLock' = "free"
    /\ callers' = SetCaller(c, NoCall)
    /\ BucketFrame

\* the server runs under any of the limit configurations
BucketInit ==
    /\ SessionInit
    /\ limit \in RateLimitConfigs
    /\ RegistryInit
    /\ chain = NoChain

BucketNext ==
    \/ \E c \in BucketCallers : CallEnter(c)
    \/ \E c \in BucketCallers : CallLock(c)
    \/ \E c \in BucketCallers : CallStore(c)

BucketSpec == BucketInit /\ [][BucketNext]_vars

\* ------------------------------------------------------------ handleProxyStream
\* everything a handler leaves alone outside ctx.streamCouter, emptySessions
\* and its own stream
\* a handler step that tears the session down
SessionFrame_Teardown ==
    /\ closed' = TRUE
    /\ sessionCloseCalls' = sessionCloseCalls + 1
    /\ UNCHANGED <<authArg, limit, chain, callVars, cryptoResets, auth,
                   activeIOTime, isP2SP, srvVars, closeCalls, p2spRegistered,
                   removeP2spCalls, reaperPc, now>>

SessionFrame ==
    UNCHANGED <<authArg, limit, chain, callVars, cryptoResets,
                auth, activeIOTime, closed, isP2SP, srvVars, extVars,
                reaperPc, now>>

HandlerFrame == SessionFrame /\ UNCHANGED regVars

\* line 104
HandlerInc(s) ==
    /\ streams[s].pc = "start"
    /\ streamCouter' = streamCouter + 1
    /\ idleSince' = NoTime
    /\ streams' = SetStream(s, [streams[s] EXCEPT !.pc = "inc"])
    /\ UNCHANGED emptySessions
    /\ HandlerFrame

\* line 105
HandlerDelete(s) ==
    /\ streams[s].pc = "inc"
    /\ emptySessions' = emptySessions \ {Ctx}
    /\ streams' = SetStream(s, [streams[s] EXCEPT !.pc = "body"])
    /\ UNCHANGED <<streamCouter, idleSince>>
    /\ HandlerFrame

\* a stream-local step of the handler of s
Local(s, r) ==
    /\ streams' = SetStream(s, r)
    /\ UNCHANGED <<streamCouter, emptySessions, idleSince>>
    /\ HandlerFrame

\* the return that runs no deferred exit
ReadRequestFail_NoDefer(s) ==
    /\ streams[s].pc = "body"
    /\ Local(s, [streams[s] EXCEPT !.pc = "done", !.closed = TRUE])

\* lines 111-116
ReadRequestFail(s) ==
    /\ streams[s].pc = "body"
    /\ Local(s, [streams[s] EXCEPT !.pc = "exit", !.closed = TRUE])

\* lines 118-122
PolicyReject(s) ==
    /\ streams[s].pc = "body"
    /\ Local(s, [streams[s] EXCEPT !.pc = "exit", !.closed = TRUE])

\* the abort without stream.Close()
Abort_NoClose(st) == [st EXCEPT !.pc = "exit"]

\* lines 172-175: err is set, the stream is closed and the handler returns
Abort(st) == [st EXCEPT !.pc = "exit", !.closed = TRUE]

\* lines 124-127, in milliseconds
InitialMaxIdleTime ==
    IF StreamIdleTimeout * MillisPerSecond = 0
      THEN DefaultStreamIdleSeconds * MillisPerSecond
      ELSE StreamIdleTimeout * MillisPerSecond

\* the step of the handler of s that starts the relay: its stream becomes r
\* and line 188 asks for the bucket of the session's user
Relay(s, r) ==
    /\ streams' = SetStream(s, r)
    /\ getRateLimitBucket(auth.user)
    /\ UNCHANGED <<streamCouter, emptySessions, idleSince>>
    /\ SessionFrame

\* lines 176-184: c is set; the deferred c.Close() is registered and the
\* stream-to-destination copier is started
StartRelay(st, kind, maxIdleTime, deadline) ==
    [st EXCEPT !.pc = "relay", !.dest = kind, !.copier = "run",
               !.maxIdleTime = maxIdleTime, !.deadline = deadline]

\* lines 129-132
DialTimeoutOf(creq) ==
    IF creq.DialTimeout = 0 THEN DefaultDialTimeoutMillis ELSE creq.DialTimeout

\* the hop list handed on unshortened
NextHops_Whole(creq) == creq.Hops

\* lines 149-150
NextHop(creq) == Head(creq.Hops)
NextHops(creq) == Tail(creq.Hops)

\* lines 155-159
StreamOptions(creq) ==
    [DialTimeout |-> creq.DialTimeout, ReadTimeout |-> creq.ReadTimeout,
     Hops |-> NextHops(creq)]

\* line 160: the connect request nextStream.Connect(network, addr, opt) puts
\* on the hop stream, which the handler at the next hop reads
ConnectSent(network, addr, opt) ==
    [Network |-> network, Addr |-> addr, DialTimeout |-> opt.DialTimeout,
     ReadTimeout |-> opt.ReadTimeout, Hops |-> opt.Hops]

\* lines 139-143: maxIdleTime once the destination is dialed, for a request
\* whose ReadTimeout is readTimeout (milliseconds)
MaxIdleTimeDialed(readTimeout) ==
    IF readTimeout > 0 THEN readTimeout ELSE InitialMaxIdleTime

\* lines 133-145 then 172-191: no hops, the destination is dialed; a
\* net.Conn has a read deadline to set
DirectDialWith(s, readTimeout, dialed) ==
    /\ streams[s].pc = "body"
    /\ IF ~dialed
         THEN Local(s, Abort(streams[s]))
         ELSE Relay(s, StartRelay(streams[s], "conn",
                                  MaxIdleTimeDialed(readTimeout), TRUE))

DirectDial(s) ==
    \E readTimeout \in ReadTimeouts, dialed \in BOOLEAN :
        DirectDialWith(s, readTimeout, dialed)

HopFailures == {"url.Parse", "GetMuxStreamByURL", "Connect", "nowhere"}

\* lines 146-170 then 172-191, for a request with hops whose ReadTimeout is
\* readTimeout: the first hop is parsed, a stream to it is obtained and
\* Connect is issued on it (readTimeout goes into its options and nowhere
\* else); a hop stream whose Connect fails is left open; whether the hop
\* stream is a DeadLineAccetor is its type's matter
HopConnectWith(s, readTimeout, failsAt, deadline) ==
    /\ streams[s].pc = "body"
    /\ IF failsAt = "url.Parse"
         THEN Local(s, Abort(streams[s]))
       ELSE IF failsAt = "GetMuxStreamByURL"
         THEN Local(s, Abort(streams[s]))
       ELSE IF failsAt = "Connect"
         THEN Local(s, Abort([streams[s] EXCEPT !.dest = "hop"]))
       ELSE Relay(s, StartRelay(streams[s], "hop", InitialMaxIdleTime,
                                deadline))

HopConnect(s) ==
    \E readTimeout \in ReadTimeouts, failsAt \in HopFailures :
        \E deadline \in IF failsAt = "nowhere" THEN BOOLEAN ELSE {FALSE} :
            HopConnectWith(s, readTimeout, failsAt, deadline)

\* the peer and the destination fall silent and maxIdleTime goes by without
\* I/O on the stream.  Only FairRelaySpec follows this: elsewhere a pass may
\* observe any silence up to maxIdleTime, which gives line 199 the same two
\* outcomes.
GoSilent(s) ==
    /\ streams[s].pc = "relay"
    /\ ~streams[s].silent
    /\ Local(s, [streams[s] EXCEPT !.silent = TRUE])

\* lines 180-184: the stream-to-destination copy ends and signals on the
\* channel; the send waits while the channel is full
CopierFinish(s) ==
    /\ streams[s].copier = "run"
    /\ streams[s].closeSig < CloseSigCap
    /\ Local(s, [streams[s] EXCEPT !.copier = "done", !.closeSig = @ + 1])

\* the net.Error case left out
isTimeoutErr_PmuxOnly(err) == err = "pmux.ErrTimeout"

\* lines 93-101
isTimeoutErr(err) ==
    IF err = "pmux.ErrTimeout" THEN TRUE
    ELSE IF IsNetError(err) /\ NetTimeout(err) THEN TRUE
    ELSE FALSE

\* now - stream.LatestIOTime() as the loop may observe it: just below the
\* limit, at it and just above
Silences(maxIdleTime) == {maxIdleTime - 1, maxIdleTime, maxIdleTime + 1}

\* line 199: the loop goes round again
LoopContinues(s, err, silence) ==
    isTimeoutErr(err) /\ silence < streams[s].maxIdleTime

\* lines 200-204: `continue`, or both sides are closed and the loop is left
AfterPass(st, continues) ==
    IF continues
      THEN [st EXCEPT !.retrying = TRUE]
      ELSE [st EXCEPT !.pc = "wait", !.dest = "closed", !.closed = TRUE,
                      !.maxIdleTime = 0, !.retrying = FALSE,
                      !.deadline = FALSE, !.silent = FALSE]

\* lines 194-205: one pass of the destination-to-stream loop, whose copy ends
\* with err while the stream has been silent for `silence`
CopyAttemptWith(s, err, silence) ==
    /\ streams[s].pc = "relay"
    /\ Local(s, AfterPass(streams[s], LoopContinues(s, err, silence)))

\* the silence a pass can observe: above maxIdleTime exactly for a stream
\* that has been silent for longer than that
Observes(s, silence) ==
    streams[s].silent <=> silence > streams[s].maxIdleTime

\* what line 199 can say in a pass, over every error and every silence the
\* pass can observe
PassOutcomes(s) ==
    {LoopContinues(s, err, silence) :
        err \in CopyErrors,
        silence \in {x \in Silences(streams[s].maxIdleTime) : Observes(s, x)}}

\* a pass with any error and any observable silence: they act through line
\* 199 only
CopyAttempt(s) ==
    /\ streams[s].pc = "relay"
    /\ \E continues \in PassOutcomes(s) :
          Local(s, AfterPass(streams[s], continues))

\* lines 195-198 for a destination whose read deadline was set: the read
\* returns when the deadline passes, if not earlier
DeadlineCopyAttempt(s) == streams[s].deadline /\ CopyAttempt(s)

\* the return that does not wait for the copier
RecvCloseSig_NoWait(s) ==
    /\ streams[s].pc = "wait"
    /\ Local(s, [streams[s] EXCEPT !.pc = "exit", !.closeSig = 0])

\* lines 206-212: the copier's signal is received, the compressed reader and
\* writer are closed, the handler returns
RecvCloseSig(s) ==
    /\ streams[s].pc = "wait"
    /\ streams[s].closeSig > 0
    /\ Local(s, [streams[s] EXCEPT !.pc = "exit", !.closeSig = @ - 1])

\* line 177 (deferred c.Close(), when c was set) and line 107, the decrement;
\* the copier goroutine is over by then
HandlerDec(s) ==
    /\ streams[s].pc = "exit"
    /\ streamCouter' = streamCouter - 1
    /\ idleSince' = IF streamCouter' = 0 THEN now ELSE NoTime
    /\ streams' = SetStream(s, [streams[s] EXCEPT
                       !.pc = IF streamCouter' = 0 THEN "dec0" ELSE "done",
                       !.dest = IF streams[s].copier # "none" THEN "closed"
                                                              ELSE @,
                       !.copier = "none"])
    /\ UNCHANGED emptySessions
    /\ HandlerFrame

\* line 107, the read of ctx.closed
HandlerReadClosed(s) ==
    /\ streams[s].pc = "dec0"
    /\ Local(s, [streams[s] EXCEPT !.pc = IF closed THEN "done" ELSE "store"])

\* line 108
HandlerStore(s) ==
    /\ streams[s].pc = "store"
    /\ emptySessions' = emptySessions \cup {Ctx}
    /\ streams' = SetStream(s, [streams[s] EXCEPT !.pc = "done"])
    /\ UNCHANGED <<streamCouter, idleSince>>
    /\ HandlerFrame

\* ------------------------------------------------------------ hop chain
\* One connect request followed from node to node: at each node the handler
\* of the stream that carries it runs lines 129-170 on what it read.
ChainFrame ==
    UNCHANGED <<authArg, ctxVars, emptySessions, srvVars, extVars, reaperPc,
                now, idleSince, streams, limit, regVars, callVars,
                cryptoResets>>

\* lines 146-170: a stream to the first hop is obtained and Connect is issued
\* on it with the remaining hops; any failure ends the request here
ChainHop ==
    /\ chain.outcome = "pending"
    /\ Len(chain.creq.Hops) # 0
    /\ \E failsAt \in {"url.Parse", "GetMuxStreamByURL", "Connect", "nowhere"} :
          chain' =
            IF failsAt \in {"url.Parse", "GetMuxStreamByURL"}
              THEN [chain EXCEPT !.outcome = "aborted"]
            ELSE IF failsAt = "Connect"
              THEN [chain EXCEPT !.outcome = "aborted",
                                 !.opened = Append(@, NextHop(chain.creq))]
            ELSE [chain EXCEPT
                    !.opened = Append(@, NextHop(chain.creq)),
                    !.creq = ConnectSent(chain.creq.Network, chain.creq.Addr,
                                         StreamOptions(chain.creq))]
    /\ ChainFrame

\* lines 133-145: no hops are left, the destination is dialed
ChainDial ==
    /\ chain.outcome = "pending"
    /\ Len(chain.creq.Hops) = 0
    /\ \E dialed \in BOOLEAN :
          chain' =
            IF dialed
              THEN [chain EXCEPT
                      !.outcome = "dialed",
                      !.dial = [Network |-> chain.creq.Network,
                                Addr |-> chain.creq.Addr,
                                Timeout |-> DialTimeoutOf(chain.creq)]]
              ELSE [chain EXCEPT !.outcome = "aborted"]
    /\ ChainFrame

\* a connect request arrives on a stream of the first node
ChainInit ==
    /\ SessionInit
    /\ limit = DefaultServerRateLimit
    /\ RegistryInit
    /\ \E creq \in ConnectRequests :
          chain = [NoChain EXCEPT !.orig = creq, !.creq = creq,
                                  !.outcome = "pending"]

ChainNext == ChainHop \/ ChainDial

ChainSpec == ChainInit /\ [][ChainNext]_vars

\* ------------------------------------------------------------ reaper
\* lines 76-83: the ticker fires, Range visits the context, it is older than
\* the timeout; the head of ctx.close()
ReaperClose ==
    /\ SessionIdleTimeout > 0
    /\ reaperPc = "idle"
    /\ Ctx \in emptySessions
    /\ now - activeIOTime > SessionIdleTimeout
    /\ CloseHead(0)
    /\ reaperPc' = "closing"
    /\ UNCHANGED <<authArg, sideVars, cryptoResets,
                   auth, activeIOTime, streamCouter, isP2SP,
                   emptySessions, srvVars, now, idleSince, streams>>

\* line 37 for the reaper's close(), then lines 84-86
ReaperDelete ==
    /\ reaperPc = "closing"
    /\ CloseTail
    /\ reaperPc' = "idle"
    /\ UNCHANGED <<authArg, sideVars, cryptoResets,
                   ctxVars, srvVars, extVars, now, idleSince, streams>>

\* ------------------------------------------------------------ time
Tick ==
    /\ now < MaxTime
    /\ now' = now + 1
    /\ UNCHANGED <<authArg, sideVars, cryptoResets,
                   ctxVars, emptySessions, srvVars, extVars, reaperPc,
                   idleSince, streams>>

\* ------------------------------------------------------------ specification
Next ==
    \/ AcceptFail
    \/ ServClose
    \/ ReaperClose
    \/ ReaperDelete
    \/ Tick
    \/ \E s \in Streams : HandshakeReadFail(s)
    \/ \E s \in Streams : HandshakeReject(s)
    \/ \E s \in Streams : HandshakeP2spFail(s)
    \/ \E s \in Streams : HandshakeOK(s)
    \/ \E s \in Streams : Dispatch(s)
    \/ \E s \in Streams : HandlerInc(s)
    \/ \E s \in Streams : HandlerDelete(s)
    \/ \E s \in Streams : ReadRequestFail(s)
    \/ \E s \in Streams : PolicyReject(s)
    \/ \E s \in Streams : DirectDial(s)
    \/ \E s \in Streams : HopConnect(s)
    \/ \E s \in Streams : CopierFinish(s)
    \/ \E s \in Streams : CopyAttempt(s)
    \/ \E s \in Streams : RecvCloseSig(s)
    \/ \E s \in Streams : HandlerDec(s)
    \/ \E s \in Streams : HandlerReadClosed(s)
    \/ \E s \in Streams : HandlerStore(s)

Spec == Init /\ [][Next]_vars

\* goroutines that can run do run, the ticker fires and time passes; a step
\* that waits for the peer or the destination has no such guarantee
FairSpec ==
    /\ Spec
    /\ WF_vars(Tick)
    /\ WF_vars(ReaperClose)
    /\ WF_vars(ReaperDelete)
    /\ WF_vars(ServClose)
    /\ \A s \in Streams :
          /\ WF_vars(HandlerInc(s))
          /\ WF_vars(HandlerDelete(s))
          /\ WF_vars(RecvCloseSig(s))
          /\ WF_vars(HandlerDec(s))
          /\ WF_vars(HandlerReadClosed(s))
          /\ WF_vars(HandlerStore(s))

\* The stream handlers of a session served with a supplied auth, alone: the
\* accept loop only dispatches, the reaper is off and no time passes.
HandlerInit == Init /\ authArg # Nil

HandlerNext ==
    \/ \E s \in Streams : Dispatch(s)
    \/ \E s \in Streams : HandlerInc(s)
    \/ \E s \in Streams : HandlerDelete(s)
    \/ \E s \in Streams : ReadRequestFail(s)
    \/ \E s \in Streams : PolicyReject(s)
    \/ \E s \in Streams : DirectDial(s)
    \/ \E s \in Streams : HopConnect(s)
    \/ \E s \in Streams : CopierFinish(s)
    \/ \E s \in Streams : CopyAttempt(s)
    \/ \E s \in Streams : RecvCloseSig(s)
    \/ \E s \in Streams : HandlerDec(s)
    \/ \E s \in Streams : HandlerReadClosed(s)
    \/ \E s \in Streams : HandlerStore(s)

HandlerSpec == HandlerInit /\ [][HandlerNext]_vars

\* The handlers with the silence of their streams followed, and their
\* goroutines scheduled: a goroutine that can run does, and a read under a
\* deadline returns; a read without a deadline may block for ever.
RelayNext ==
    \/ HandlerNext
    \/ \E s \in Streams : GoSilent(s)

FairRelaySpec ==
    /\ HandlerInit
    /\ [][RelayNext]_vars
    /\ \A s \in Streams :
          /\ WF_vars(HandlerInc(s))
          /\ WF_vars(HandlerDelete(s))
          /\ WF_vars(DeadlineCopyAttempt(s))
          /\ WF_vars(RecvCloseSig(s))
          /\ WF_vars(HandlerDec(s))
          /\ WF_vars(HandlerReadClosed(s))
          /\ WF_vars(HandlerStore(s))

\* ------------------------------------------------------------ properties
HandshakePcs == {"hs_readfail", "hs_rejected", "hs_p2spfail", "hs_ok"}

\* the stream was handed to handleProxyStream or handleP2spProxyStream
Dispatched(s) == streams[s].pc \notin ({"none"} \cup HandshakePcs)

\* handleProxyStream has returned from its body (its deferred calls may be
\* still to run)
Returned(s) == streams[s].pc \in {"exit", "dec0", "store", "done"}

\* the reaper calls ctx.close() in this step
ReaperCloses == reaperPc = "idle" /\ reaperPc' = "closing"

\* C1: on a session served with no auth supplied, a stream is dispatched to a
\* proxy handler only after an earlier stream carried an auth request that
\* passed VerifyUser, IsValidCompressor and, when it names a room, the
\* peer-relay registration; the streams before that one were only failed
\* handshake attempts.
C1_NoProxyBeforeAuth ==
    authArg = Nil =>
        /\ \A s \in Streams : Dispatched(s) =>
              /\ \E t \in Streams : t < s /\ streams[t].pc = "hs_ok"
              /\ auth # Nil
              /\ VerifyUser(auth.user)
              /\ IsValidCompressor(auth.comp)
              /\ Len(auth.room) > 0 => isP2SP
        /\ \A h \in Streams : streams[h].pc = "hs_ok" =>
              \A t \in Streams : t < h => streams[t].pc = "hs_readfail"

C1_Witness ==
    /\ authArg = Nil
    /\ \E s \in Streams : streams[s].pc = "body"
    /\ \E t \in Streams : streams[t].pc = "hs_ok"

\* C2: the reaper never calls ctx.close() on a session whose streamCouter is
\* greater than zero.
C2_ReaperSparesBusySession == [][ReaperCloses => streamCouter = 0]_vars

\* no handler is between its counter update and its idle-set update, and no
\* close() is between its head and its Delete
Quiescent ==
    /\ \A s \in Streams : streams[s].pc \notin {"inc", "dec0", "store"}
    /\ srvPc # "closing"
    /\ reaperPc # "closing"

\* C3: whenever no handler is mid-registration and no close() is in progress,
\* the context is in emptySessions iff streamCouter = 0 and closed is false.
C3_IdleSetIffIdle ==
    Quiescent => (Ctx \in emptySessions <=> (streamCouter = 0 /\ ~closed))

\* C4: the teardown runs exactly once per session: ctx.close(), the underlying
\* session's Close and removeP2spSession are each called at most once, and
\* ctx.close() has run once when ServProxyMuxSession has returned.
C4_TeardownOnce ==
    /\ closeCalls <= 1
    /\ sessionCloseCalls <= 1
    /\ removeP2spCalls <= 1
    /\ srvPc = "returned" => closeCalls = 1

\* the session is served, open, and has had no active stream for longer than
\* the session idle timeout
IdleLong ==
    /\ srvPc = "accept"
    /\ ~closed
    /\ streamCouter = 0
    /\ idleSince # NoTime
    /\ now - idleSince > SessionIdleTimeout

\* C5: with a fairly scheduled reaper, a served session that has been without
\* active streams for longer than the timeout is eventually closed (unless it
\* stops being idle or being served first).
C5_IdleSessionReaped ==
    IdleLong ~> (closed \/ streamCouter > 0 \/ srvPc # "accept")

\* C6: the reaper closes a session only when its stream count is zero and has
\* been zero for longer than the session idle timeout.
C6_ReapedOnlyAfterIdleTimeout ==
    [][ReaperCloses =>
          /\ streamCouter = 0
          /\ idleSince # NoTime
          /\ now - idleSince > SessionIdleTimeout]_vars

\* C7: once a handshake is refused for its user or its compressor, the session
\* is closed, ServProxyMuxSession returns ErrAuthFailed, no later stream is
\* accepted and no stream is dispatched.
C7_AuthRejectEndsSession ==
    \A s \in Streams : streams[s].pc = "hs_rejected" =>
        /\ srvPc \in {"closing", "returned"}
        /\ ret = "ErrAuthFailed"
        /\ sessionCloseCalls >= 1
        /\ closed
        /\ accepted = s
        /\ \A t \in Streams : ~Dispatched(t)

C7_Witness ==
    /\ srvPc = "returned"
    /\ \E s \in Streams :
          /\ streams[s].pc = "hs_rejected"
          /\ streams[s].refused = "compressor"
          /\ \E t \in Streams : t < s /\ streams[t].pc = "hs_readfail"

\* C8: when reading the auth request fails, the session stays open, auth stays
\* absent, the accept loop goes on, and the failed handshake stream is closed.
C8_FailedHandshakeStreamClosed ==
    [][\A s \in Streams :
          (streams[s].pc = "none" /\ streams'[s].pc = "hs_readfail") =>
              /\ closed' = closed
              /\ sessionCloseCalls' = sessionCloseCalls
              /\ auth' = Nil
              /\ srvPc' = "accept"
              /\ streams'[s].closed]_vars

\* C9: a handleProxyStream invocation that has returned has closed its stream.
C9_ReturnedHandlerClosedStream ==
    \A s \in Streams : Returned(s) => streams[s].closed

C9_Witness ==
    \E s \in Streams :
        /\ streams[s].pc = "done"
        /\ streams[s].dest = "hop"
        /\ streams[s].closed

TimeoutClass == {"pmux.ErrTimeout", "net.Timeout"}
OpenDest == {"conn", "hop"}

\* C10: a copy attempt that ends with a timeout-class error while the stream
\* has been silent for less than the idle timeout leaves the handler in the
\* loop with the destination and the stream open; any other ending leaves the
\* loop with both closed.
C10_RelayRetryOrClose ==
    [][\A s \in Streams : \A err \in CopyErrors :
         \A silence \in Silences(streams[s].maxIdleTime) :
            CopyAttemptWith(s, err, silence) =>
               IF err \in TimeoutClass /\ silence < streams[s].maxIdleTime
                 THEN /\ streams'[s].pc = "relay"
                      /\ ~streams'[s].closed
                      /\ streams'[s].dest \in OpenDest
                 ELSE /\ streams'[s].pc = "wait"
                      /\ streams'[s].closed
                      /\ streams'[s].dest = "closed"]_vars

C10_Witness ==
    /\ \E s \in Streams :
          /\ streams[s].pc = "relay"
          /\ streams[s].retrying
          /\ ~streams[s].closed
          /\ streams[s].dest \in OpenDest
    /\ \E s \in Streams :
          /\ streams[s].pc = "wait"
          /\ streams[s].closed
          /\ streams[s].dest = "closed"

\* the hops of a request from the k-th on
HopsFrom(creq, k) == SubSeq(creq.Hops, k, Len(creq.Hops))

\* C11: at every level the handler opens a stream to the head of the hop list
\* it read and issues Connect with the original network, address, dial timeout
\* and read timeout and with the tail of that list: after k chained connects
\* the streams opened are the first k hops in order and the request in flight
\* is the original with its first k hops removed; the direct dial is done by
\* the level that reads an empty hop list, after as many chained connects as
\* the original request has hops, to the original network and address.
C11_HopChain ==
    chain.outcome \in {"pending", "dialed"} =>
        /\ Len(chain.opened) <= Len(chain.orig.Hops)
        /\ chain.opened = SubSeq(chain.orig.Hops, 1, Len(chain.opened))
        /\ chain.creq = [chain.orig EXCEPT
                           !.Hops = HopsFrom(chain.orig, Len(chain.opened) + 1)]
        /\ chain.outcome = "dialed" =>
              /\ Len(chain.opened) = Len(chain.orig.Hops)
              /\ chain.creq.Hops = <<>>
              /\ chain.dial = [Network |-> chain.orig.Network,
                               Addr |-> chain.orig.Addr,
                               Timeout |-> DialTimeoutOf(chain.orig)]

C11_Witness ==
    /\ chain.outcome = "dialed"
    /\ chain.orig.Hops = <<"hopA", "hopB">>
    /\ chain.opened = <<"hopA", "hopB">>
    /\ chain.orig.DialTimeout # 0
    /\ chain.orig.ReadTimeout # 0

\* C12: every bucket ever made is for a key of its own and is still the
\* table's entry of that key, and every bucket a call returned is the table's
\* entry of its key: one bucket per key, the same one for every caller, none
\* lost or replaced.
C12_OneBucketPerKey ==
    /\ \A i, j \in 1..Len(bucketsMade) :
          bucketsMade[i] = bucketsMade[j] => i = j
    /\ \A i \in 1..Len(bucketsMade) :
          /\ bucketsMade[i] \in DOMAIN rateLimitBuckets
          /\ rateLimitBuckets[bucketsMade[i]] = i
    /\ \A p \in got :
          /\ p[1] \in DOMAIN rateLimitBuckets
          /\ rateLimitBuckets[p[1]] = p[2]

\* both keys have their bucket; one caller found the bucket of its key made
\* by another and holds the lock, a third waits for it
C12_Witness ==
    /\ Len(bucketsMade) = 2
    /\ Cardinality(got) = 2
    /\ callers["a1"].pc = "looked" /\ callers["a1"].ok
    /\ callers["a2"].pc = "wait"
    /\ rateLimitBucketLock = "a1"

\* handleProxyStream has run line 104 for the stream and not yet line 107
Active(s) == streams[s].pc \in {"inc", "body", "relay", "wait", "exit"}

\* C13: streamCouter is never negative and equals the number of
\* handleProxyStream invocations that have started and not yet run their
\* deferred exit.
C13_CounterCountsHandlers ==
    /\ streamCouter >= 0
    /\ streamCouter = Cardinality({s \in Streams : Active(s)})

C13_Witness ==
    /\ streamCouter = 1
    /\ \E s \in Streams : streams[s].pc = "done" /\ streams[s].dest = "closed"
    /\ \E s \in Streams : streams[s].pc = "relay"

\* executions of ctx.close() that have run to their end
CompletedCloses ==
    closeCalls - (IF srvPc = "closing" THEN 1 ELSE 0)
               - (IF reaperPc = "closing" THEN 1 ELSE 0)

\* C14: once a close() has completed on the context, the context is not in
\* emptySessions.
C14_ClosedNotIdleCandidate ==
    CompletedCloses >= 1 => Ctx \notin emptySessions

\* C15: a stream in the relay phase that has been silent for longer than its
\* idle timeout eventually leaves the relay loop with the stream and its
\* destination closed, whatever the kind of its destination.
C15_SilentRelayEnds ==
    \A s \in Streams :
        (streams[s].pc = "relay" /\ streams[s].silent)
            ~> (streams[s].pc # "relay" /\ streams[s].closed
                                        /\ streams[s].dest = "closed")

\* the idle timeout of a stream whose request carries readTimeout, in
\* milliseconds: the read timeout, else the configured one, else 10 s
IdleTimeoutFor(readTimeout) ==
    IF readTimeout # 0 THEN readTimeout
    ELSE IF StreamIdleTimeout # 0 THEN StreamIdleTimeout * MillisPerSecond
    ELSE DefaultStreamIdleSeconds * MillisPerSecond

\* the handler of s has just entered its relay loop with the idle timeout of
\* a request carrying readTimeout, and no other stream was touched
EntersRelayWith(s, readTimeout) ==
    streams'[s].pc = "relay" =>
        /\ streams'[s].maxIdleTime = IdleTimeoutFor(readTimeout)
        /\ \A t \in Streams \ {s} : streams'[t] = streams[t]

\* C16: whether the destination is dialed or reached through hops, the relay
\* loop of a stream runs with the read timeout of its connect request when
\* that is nonzero, else with the configured stream idle timeout, or 10 s when
\* that is zero; no other stream is affected.
C16_IdleTimeoutChosen ==
    [][\A s \in Streams : \A readTimeout \in ReadTimeouts :
          /\ \A dialed \in BOOLEAN :
                DirectDialWith(s, readTimeout, dialed)
                    => EntersRelayWith(s, readTimeout)
          /\ \A failsAt \in HopFailures : \A deadline \in BOOLEAN :
                HopConnectWith(s, readTimeout, failsAt, deadline)
                    => EntersRelayWith(s, readTimeout)]_vars

\* C17: while the stream-to-destination copier of a handler has not finished
\* and signalled, the handler is in its relay loop or waiting for the signal:
\* it has not returned and not decremented streamCouter, so its stream is
\* still counted; the channel has room for the copier's one signal, and a
\* signal in the channel comes from a finished copier.
C17_CopyTasksJoined ==
    \A s \in Streams :
        /\ streams[s].copier = "run" =>
              /\ streams[s].pc \in {"relay", "wait"}
              /\ streamCouter >= 1
              /\ streams[s].closeSig < CloseSigCap
        /\ streams[s].closeSig > 0 => streams[s].copier = "done"
        /\ (streams[s].pc = "exit" /\ streams[s].copier # "none") =>
              /\ streams[s].copier = "done"
              /\ streams[s].closeSig = 0

\* one handler has joined its copier and returned, another waits for the
\* signal of a copier that still runs
C17_Witness ==
    /\ \E s \in Streams :
          /\ streams[s].pc = "exit"
          /\ streams[s].copier = "done"
    /\ \E s \in Streams :
          /\ streams[s].pc = "wait"
          /\ streams[s].copier = "run"

HandlerPcs == {"start", "inc", "body", "relay", "wait", "exit", "dec0",
               "store"}

\* the handler of s takes a step
HandlerStep(s) == streams[s].pc \in HandlerPcs /\ streams'[s] # streams[s]

\* the step in which the handler of s gives up its stream: the connect
\* request is unreadable or refused, the dial or a hop fails, or the relay
\* loop ends on the destination's error
FailsLocally(s) ==
    /\ streams[s].pc \in {"body", "relay"}
    /\ streams'[s].pc \in {"exit", "wait"}

\* C18: no step of a stream handler closes the session, changes closed or
\* auth, stops the accept loop or touches another stream; the step of a
\* stream-local failure changes nothing of the session at all, and all a
\* handler ever changes of it is streamCouter and the idle set.
C18_StreamFailureIsLocal ==
    [][\A s \in Streams :
          /\ HandlerStep(s) =>
                /\ UNCHANGED <<auth, closed, isP2SP, activeIOTime, srvVars,
                               extVars, cryptoResets>>
                /\ \A t \in Streams \ {s} : streams'[t] = streams[t]
          /\ FailsLocally(s) => UNCHANGED <<streamCouter, emptySessions>>]_vars

\* a handler has given up its stream before any destination was there; the
\* session is open and accepting and another stream relays
C18_Witness ==
    /\ \E s \in Streams :
          /\ streams[s].pc = "exit"
          /\ streams[s].closed
          /\ streams[s].dest = "none"
    /\ \E t \in Streams : streams[t].pc = "relay"
    /\ ~closed
    /\ sessionCloseCalls = 0
    /\ srvPc = "accept"

\* C19: auth, once set, is never reassigned or cleared; it is set only by a
\* handshake whose request passed VerifyUser and IsValidCompressor, and is
\* absent only while no handshake has passed them; with auth set no stream is
\* treated as a handshake stream; the cipher context is reset only in the
\* step that sets auth, at most once.
C19_AuthSetOnce ==
    [][/\ auth # Nil => auth' = auth
       /\ (auth = Nil /\ auth' # Nil) =>
             /\ VerifyUser(auth'.user)
             /\ IsValidCompressor(auth'.comp)
       /\ auth' = Nil =>
             \A s \in Streams : streams'[s].pc \notin {"hs_ok", "hs_p2spfail"}
       /\ auth # Nil =>
             \A s \in Streams :
                 streams'[s].pc \in HandshakePcs => streams'[s] = streams[s]
       /\ cryptoResets' # cryptoResets => (auth = Nil /\ auth' # Nil)
       /\ cryptoResets' <= 1]_vars

\* after a failed attempt the handshake passed on the second stream and the
\* cipher context was reset once; the session then failed to accept
C19_Witness ==
    /\ authArg = Nil
    /\ auth # Nil
    /\ cryptoResets = 1
    /\ streams[1].pc = "hs_readfail"
    /\ streams[2].pc = "hs_ok"
    /\ srvPc = "returned"

\* C20: once a handleProxyStream invocation has returned and run its deferred
\* calls, every destination-side connection it obtained is closed.
C20_DestinationClosedAtReturn ==
    \A s \in Streams :
        streams[s].pc \in {"dec0", "store", "done"} =>
            streams[s].dest \in {"none", "closed"}

====
